---- MODULE Spec2Model ----
(***************************************************************************)
(* Model of the dmp library (src/src/dmp.cpp) and its service node         *)
(* (src/nodes/dmp_server.cpp).                                             *)
(*                                                                         *)
(* Numbers.  The code computes in double; the model computes in integers.  *)
(* Time is in whole seconds, positions and velocities in whole units, and  *)
(* the canonical phase is a fixed-point number in 1/FixedOne .  Quotients  *)
(* are integer quotients.  Vectors are 1-based sequences: the C++ index i  *)
(* is the TLA+ index i+1.                                                  *)
(*                                                                         *)
(* Reads past the end of a std::vector are undefined behaviour.  The model *)
(* records every such read in oob and lets it yield junk, a value chosen   *)
(* nondeterministically when the operation is called.                      *)
(***************************************************************************)
EXTENDS Integers, Sequences, FiniteSets, TLC

VARIABLES
    pc,               \* "idle", "plan" (inside generatePlan's loop), "done"
    last,             \* the operation that ran last
    active_dmp_list,  \* dmp_server.cpp:4
    req,              \* the request of the running service call
    junk,             \* what a read past the end of a vector yields
    oob,              \* the reads past the end of a vector made by the operation
    reported,         \* the diagnostics the operation emitted
    obstacle, beta, gamma, k,                  \* generatePlan's by-value arguments
    t, n_pts, at_goal, seg_end,                \* generatePlan's locals
    x_vecs, x_dot_vecs, t_vec,
    plan,             \* the DMPTraj generatePlan fills
    dmp_list,         \* the output list of learnFromDemo
    res_tau,          \* LearnDMPFromDemo::Response::tau
    geo               \* the result of the last geometry helper call

vars == <<pc, last, active_dmp_list, req, junk, oob, reported, obstacle, beta,
          gamma, k, t, n_pts, at_goal, seg_end, x_vecs, x_dot_vecs, t_vec,
          plan, dmp_list, res_tau, geo>>

----------------------------------------------------------------------------
(* Bounds of the model *)

MaxObstLen == 7      \* longest flat obstacle list of a Plan request
MaxCoefLen == 3      \* longest beta / gamma / k list of a Plan request
MaxDemoPts == 2      \* most points of a demonstration
MaxLearnCalls == 2   \* most calls of learnFromDemo on one output list
MaxVerts == 2        \* most vertices handed to a geometry helper directly

(* Program constants *)

MAX_PLAN_LENGTH == 1000

(* Input values *)

DimsVals == {0, 1, 3, 6}
WeightVals == {<<0, 0>>, <<300, -200>>}
GainVals == {[k_gain |-> 1, d_gain |-> 2]}
JunkVals == {-7, 3}
TauVals == {500, 1500}
DtVals == {250, 500}
T0Vals == {0, 250}
SegVals == {-1, 250, 600}
IterVals == {1, 2}
ThreshVals == {0, 50, 2000}
ApfFactors == {0, 1}

----------------------------------------------------------------------------
(* Helpers *)

Abs(a) == IF a < 0 THEN -a ELSE a
Max(a, b) == IF a < b THEN b ELSE a
Min(a, b) == IF a < b THEN a ELSE b
Vec(n, v) == [i \in 1..n |-> v]

\* vec[i] of the C++ code (0-based): the element, or junk past the end.
At(vec, i, j) == IF i >= 0 /\ i < Len(vec) THEN vec[i + 1] ELSE j

\* The reads among vec[i], i \in idxs, that are past the end of vec.
Oob(name, vec, idxs) ==
    {[vec |-> name, idx |-> i] : i \in {x \in idxs : x < 0 \/ x >= Len(vec)}}

----------------------------------------------------------------------------
(* calcPhase: exp(-(alpha/tau)*curr_time) with alpha = -log(0.01), that is  *)
(* 0.01^(curr_time/tau), tabulated at quarters of tau in 1/FixedOne.        *)

PhaseTable == <<1000, 316, 100, 32, 10, 3, 1>>
FixedOne == PhaseTable[1]    \* the fixed-point representation of 1.0

calcPhase(curr_time, tau) ==
    LET q == (4 * curr_time) \div tau
    IN IF q + 1 > Len(PhaseTable) THEN 0 ELSE PhaseTable[q + 1]

(* FourierApprox::evalAt at x = num/den: the weighted sum of the harmonics  *)
(* cos(2*pi*j*x), with x taken in quarters so that each harmonic is 1, 0,  *)
(* -1 or 0.                                                                *)

CosTable == <<1, 0, -1, 0>>

RECURSIVE evalSum(_, _, _)
evalSum(weights, quarters, j) ==
    IF j > Len(weights) THEN 0
    ELSE weights[j] * CosTable[(((j - 1) * quarters) % 4) + 1]
         + evalSum(weights, quarters, j + 1)

evalAt(weights, num, den) == evalSum(weights, (4 * num) \div den, 1)

----------------------------------------------------------------------------
(* Geometry helpers.  A vertex is a triple; a vertex list is a sequence of  *)
(* vertices.  Each helper yields the set of results the build can produce:  *)
(* kind "value" is a computed vector, "indeterminate" an uninitialized or   *)
(* out-of-range read (any content), "nan" a vector of NaN, "abort" a failed *)
(* Eigen assertion.                                                         *)

GeoJunkVals == {0, 17}
Value(v, rep) == [kind |-> "value", v |-> v, reported |-> rep]
Indeterminate(rep) ==
    {[kind |-> "indeterminate", v |-> <<a, b, c>>, reported |-> rep] :
        a \in GeoJunkVals, b \in GeoJunkVals, c \in GeoJunkVals}

RECURSIVE MinOver(_, _, _)
MinOver(points, c, i) ==
    IF i = Len(points) THEN points[i][c]
    ELSE Min(points[i][c], MinOver(points, c, i + 1))

RECURSIVE MaxOver(_, _, _)
MaxOver(points, c, i) ==
    IF i = Len(points) THEN points[i][c]
    ELSE Max(points[i][c], MaxOver(points, c, i + 1))

RECURSIVE SumOver(_, _, _)
SumOver(points, c, i) ==
    IF i > Len(points) THEN 0 ELSE points[i][c] + SumOver(points, c, i + 1)

\* dmp.cpp:236-262.  The empty case prints to std::cerr and returns a
\* default-constructed Eigen::Vector3d, whose coefficients are not initialized.
calculate_bounding_box_dimensions(points) ==
    IF Len(points) = 0 \/ Len(points[1]) = 0
    THEN Indeterminate(TRUE)
    ELSE {Value([c \in 1..3 |-> MaxOver(points, c, 1) - MinOver(points, c, 1)],
                FALSE)}

\* dmp.cpp:264-274.  With no rows the sum (0,0,0) is divided by 0: NaN.
calculateCentroid(points) ==
    IF Len(points) = 0
    THEN {[kind |-> "nan", v |-> <<0, 0, 0>>, reported |-> FALSE]}
    ELSE {Value([c \in 1..3 |-> SumOver(points, c, 1) \div Len(points)], FALSE)}

\* dmp.cpp:276-287
verticesVectorToEigen(vertices) == [i \in 1..Len(vertices) |->
                                       [j \in 1..3 |-> vertices[i][j]]]

\* The squared Euclidean distance, which orders points as the norm does.
Dist2(p, q) == (p[1] - q[1]) * (p[1] - q[1]) + (p[2] - q[2]) * (p[2] - q[2])
               + (p[3] - q[3]) * (p[3] - q[3])

\* minCoeff(&index): the first index of the least distance.
MinIndex(vertices_matrix, path_point) ==
    CHOOSE i \in 1..Len(vertices_matrix) :
        /\ \A j \in 1..Len(vertices_matrix) :
              Dist2(vertices_matrix[i], path_point)
                  <= Dist2(vertices_matrix[j], path_point)
        /\ \A j \in 1..(i - 1) :
              Dist2(vertices_matrix[j], path_point)
                  > Dist2(vertices_matrix[i], path_point)

\* dmp.cpp:289-304.  With no rows minCoeff and row(0) fail Eigen's assertions,
\* or with assertions compiled out read row 0 of an empty matrix.
nearestObjectPoint(vertices_matrix, path_point) ==
    IF Len(vertices_matrix) = 0
    THEN Indeterminate(FALSE)
         \cup {[kind |-> "abort", v |-> <<0, 0, 0>>, reported |-> FALSE]}
    ELSE {Value(vertices_matrix[MinIndex(vertices_matrix, path_point)], FALSE)}

----------------------------------------------------------------------------
(* artificialPotentialFieldCoupling, dmp.cpp:160-234.                       *)
(* The rotation R and the factors theta*exp(-beta*theta)*exp(-k*distance)   *)
(* of each term are not computed: each term is gamma[j] * c * v, with c a   *)
(* factor the caller draws from ApfFactors.  The centroid and the nearest   *)
(* vertex enter the result only through those factors.                      *)

\* dmp.cpp:197-198
PadBeta(b, j) == IF Len(b) < 2 THEN <<At(b, 0, j), 0>> ELSE b

\* dmp.cpp:199-202 (gamma and k are padded alike)
PadTo3(g, j) == IF Len(g) < 3 THEN <<At(g, 0, j), 0, 0>> ELSE g

\* The reads past the end made by the padding and by the coupling terms.
CoefOob(b, g, kk, vertexBranch) ==
    IF vertexBranch
    THEN Oob("beta", b, IF Len(b) < 2 THEN {0} ELSE {})
         \cup Oob("gamma", g, IF Len(g) < 3 THEN {0} ELSE {})
         \cup Oob("k", kk, IF Len(kk) < 3 THEN {0} ELSE {})
    ELSE Oob("beta", b, {0}) \cup Oob("gamma", g, {0}) \cup Oob("k", kk, {0})

artificialPotentialFieldCoupling(x, v, o, b, g, kk, m, n, c, j) ==
    IF Len(o) = 1
    THEN [apf_ct |-> [i \in 1..3 |-> At(g, 0, j) * c * v[i]],
          beta |-> b, gamma |-> g, k |-> kk,
          oob |-> CoefOob(b, g, kk, FALSE)]
    ELSE LET dim_e == (CHOOSE r \in calculate_bounding_box_dimensions(o) : TRUE).v
             b2 == PadBeta(b, j)
             g2 == PadTo3(g, j)
             k2 == PadTo3(kk, j)
             dim_s_e == <<n + m * dim_e[1], n + m * dim_e[2], n + m * dim_e[2]>>
         IN [apf_ct |-> [i \in 1..3 |->
                           (g2[1] + g2[2] + g2[3]) * c * v[i] * dim_s_e[i]],
             beta |-> b2, gamma |-> g2, k |-> k2,
             oob |-> CoefOob(b, g, kk, TRUE)]

----------------------------------------------------------------------------
(* Plan requests.  D is the number of primitives of the active list.        *)

ShortNames == {"x_0", "x_dot_0", "goal", "goal_thresh"}
Shorten(vec, name, short) ==
    IF short = name /\ Len(vec) > 0 THEN SubSeq(vec, 1, Len(vec) - 1) ELSE vec

\* Thresholds alternate between the two values of a pattern.
ThreshPatterns == {<<a, b>> : a \in ThreshVals, b \in {0}} \cup
                  {<<a, a>> : a \in ThreshVals}
ThreshVec(D, p) == [i \in 1..D |-> IF i % 2 = 1 THEN p[1] ELSE p[2]]

GoalVals == {1000}
CoefVec(n) == [i \in 1..n |-> i]
FlatObstacle(n) == [i \in 1..n |-> i]

PlanReq(D, x0, xd0, t0, gl, th, seg, tau, dt, it, short, obst, b, g, kk) ==
    [x_0 |-> Shorten(Vec(D, x0), "x_0", short),
     x_dot_0 |-> Shorten(Vec(D, xd0), "x_dot_0", short),
     t_0 |-> t0,
     goal |-> Shorten(Vec(D, gl), "goal", short),
     goal_thresh |-> Shorten(ThreshVec(D, th), "goal_thresh", short),
     seg_length |-> seg, tau |-> tau, dt |-> dt, integrate_iter |-> it,
     obstacle |-> obst, beta |-> b, gamma |-> g, k |-> kk,
     scale_m |-> 1, scale_n |-> 0]

\* Requests that vary the timing, with vectors of the right length.
TimingReqs(D) ==
    {PlanReq(D, x0, 0, t0, gl, th, seg, tau, dt, it, "none", <<>>,
             CoefVec(1), CoefVec(1), CoefVec(1)) :
        gl \in GoalVals, x0 \in {0} \cup GoalVals, t0 \in T0Vals, th \in ThreshPatterns,
        seg \in SegVals, tau \in TauVals, dt \in DtVals, it \in IterVals}

\* Requests with one vector one entry short of D.
ShortReqs(D) ==
    {PlanReq(D, 0, 0, 0, gl, <<50, 50>>, -1, 500, 250, 1, short, <<>>,
             CoefVec(1), CoefVec(1), CoefVec(1)) :
        gl \in GoalVals, short \in ShortNames}

\* Requests that vary the obstacle list and the coupling coefficients.
ObstacleReqs(D) ==
    {PlanReq(D, 0, xd0, 0, gl, <<0, 0>>, -1, 500, 250, 1, "none",
             FlatObstacle(n), CoefVec(nb), CoefVec(ng), CoefVec(nk)) :
        gl \in GoalVals, xd0 \in {0, 10}, n \in 1..MaxObstLen,
        nb \in 1..MaxCoefLen, ng \in 1..MaxCoefLen, nk \in 1..MaxCoefLen}

\* The calls to try: a request and the junk value.  Junk is read only past
\* the end of a vector, which the requests of TimingReqs never do.
PlanCalls(D) == (TimingReqs(D) \X {0})
                \cup ((ShortReqs(D) \cup ObstacleReqs(D)) \X JunkVals)

----------------------------------------------------------------------------
(* planCallback, dmp_server.cpp:14-27                                       *)

\* dmp_server.cpp:17-22: the vertex list built from the flat scalar list.
ParseObstacle(flat, j) ==
    IF Len(flat) > 3
    THEN [n \in 1..((Len(flat) + 2) \div 3) |->
             <<At(flat, 3 * (n - 1), j), At(flat, 3 * (n - 1) + 1, j),
               At(flat, 3 * (n - 1) + 2, j)>>]
    ELSE IF Len(flat) = 3 THEN <<flat>> ELSE <<>>

\* The reads of the flat list past its end made by the loop of line 19-20.
ParseOob(flat) ==
    IF Len(flat) > 3
    THEN Oob("obstacle", flat, 0..(3 * ((Len(flat) + 2) \div 3) - 1))
    ELSE {}

----------------------------------------------------------------------------
(* generatePlan, dmp.cpp:330-482                                            *)

EmptyPlan == [points |-> <<>>, times |-> <<>>]

\* The loop condition with the cutoff counted from tau instead of from 0.
LoopCond_AfterTau(tt, t_0, tau, ag, se) ==
    ((tt + t_0) < tau \/ (~ag /\ tt < tau + MAX_PLAN_LENGTH)) /\ ~se

\* The loop condition with && for the || between the two reasons to go on.
LoopCond_And(tt, t_0, tau, ag, se) ==
    ((tt + t_0) < tau /\ (~ag /\ tt < MAX_PLAN_LENGTH)) /\ ~se

\* The loop condition with <= for the < of (t+t_0) < tau.
LoopCond_Le(tt, t_0, tau, ag, se) ==
    ((tt + t_0) <= tau \/ (~ag /\ tt < MAX_PLAN_LENGTH)) /\ ~se

\* dmp.cpp:376, the condition of the planning loop
LoopCond(tt, t_0, tau, ag, se) ==
    ((tt + t_0) < tau \/ (~ag /\ tt < MAX_PLAN_LENGTH)) /\ ~se

\* dmp.cpp:378-380
SegEnd(seg_length, tt, se) ==
    IF seg_length > 0 /\ tt > seg_length THEN TRUE ELSE se

\* dmp.cpp:384, whether the coupling term is computed
Coupled(obst, dims) == Len(obst) > 0 /\ (dims = 3 \/ dims = 6)

\* dmp.cpp:417-439, the sub-steps iter..integrate_iter-1 of one dimension;
\* xv is <<x, v>>.
RECURSIVE Integrate(_, _, _, _, _, _, _, _, _, _)
Integrate(dmp, x0i, gi, apfi, tt0, tau, dt, n_iter, iter, xv) ==
    IF iter >= n_iter THEN xv
    ELSE LET s == calcPhase(tt0 + (dt * iter), tau)
             f_eval == IF tt0 >= tau THEN 0
                       ELSE (evalAt(dmp.weights, tt0, tau) * s) \div FixedOne
             num == dmp.k_gain * ((gi - xv[1]) - (((gi - x0i) * s) \div FixedOne)
                                  + f_eval)
                    - dmp.d_gain * xv[2] + apfi
             v2 == xv[2] + ((num * dt) \div tau)
             x2 == xv[1] + ((xv[2] * dt) \div tau)
         IN Integrate(dmp, x0i, gi, apfi, tt0, tau, dt, n_iter, iter + 1,
                      <<x2, v2>>)

\* dmp.cpp:443 and 413: the velocity is stored as v/tau and read back as
\* x_dot*tau.
ToXDot(v, tau) == (v * FixedOne) \div tau
FromXDot(xd, tau) == (xd * tau) \div FixedOne

\* The goal check without its guard (t+t_0) >= tau.
AtGoalAfter_NoTau(ag, tt, t_0, tau, xs, goal, goal_thresh, dims, j) ==
    \A i \in 0..(dims - 1) :
        ~(At(goal_thresh, i, j) > 0
          /\ Abs(xs[i + 1] - At(goal, i, j)) > At(goal_thresh, i, j))

\* dmp.cpp:450-458: the value of at_goal after a step that ends at time tt
\* with positions xs.
AtGoalAfter(ag, tt, t_0, tau, xs, goal, goal_thresh, dims, j) ==
    IF (tt + t_0) >= tau
    THEN \A i \in 0..(dims - 1) :
            ~(At(goal_thresh, i, j) > 0
              /\ Abs(xs[i + 1] - At(goal, i, j)) > At(goal_thresh, i, j))
    ELSE ag

\* The reads past the end of the request's vectors made by one iteration.
StepOob(r, dims, first, coupled, tt, j) ==
    LET all == 0..(dims - 1)
    IN (IF first THEN Oob("x_0", r.x_0, all) \cup Oob("x_dot_0", r.x_dot_0, all)
        ELSE {})
       \cup (IF first /\ coupled
             THEN Oob("x_0", r.x_0, 0..2) \cup Oob("x_dot_0", r.x_dot_0, 0..2)
             ELSE {})
       \cup Oob("goal", r.goal, all) \cup Oob("x_0", r.x_0, all)
       \cup (IF (tt + r.t_0) >= r.tau
             THEN Oob("goal_thresh", r.goal_thresh, all)
                  \cup Oob("goal", r.goal,
                           {i \in all : At(r.goal_thresh, i, j) > 0})
             ELSE {})

----------------------------------------------------------------------------
(* learnFromDemo, dmp.cpp:75-146                                            *)

FitVals == {0, 5}
BasesVals == {1, 2}
DemoDims == {1, 2}
LearnShort == {"none", "k_gains", "d_gains"}

\* A demonstration of n points of dimension D, at times 250, 500, ...
Demo(n, D) ==
    [points |-> [i \in 1..n |-> [positions |-> [d \in 1..D |-> (i - 1) * 500 * d]]],
     times |-> [i \in 1..n |-> 250 * i]]

LearnRequests ==
    {[demo |-> Demo(n, D),
      k_gains |-> Shorten(Vec(D, 1), "k_gains", short),
      d_gains |-> Shorten(Vec(D, 2), "d_gains", short),
      num_bases |-> nb] :
        n \in 0..MaxDemoPts, D \in DemoDims, short \in LearnShort,
        nb \in BasesVals}

\* FourierApprox::leastSquaresWeights and getWeights: num_bases weights.  The
\* least-squares solution is not computed; w is a value the caller draws.
leastSquaresWeights(num_bases, f_domain, f_targets, w) == Vec(num_bases, w)

\* dmp.cpp:104-115: v_demo[i] and v_dot_demo[i] (0-based i) of dimension d
v_demo(demo, d, i) ==
    IF i = 0 THEN 0
    ELSE (demo.points[i + 1].positions[d] - demo.points[i].positions[d])
         \div (demo.times[i + 1] - demo.times[i])

v_dot_demo(demo, d, i) ==
    IF i = 0 THEN 0
    ELSE (v_demo(demo, d, i) - v_demo(demo, d, i - 1))
         \div (demo.times[i + 1] - demo.times[i])

\* dmp.cpp:118-123: the forcing-term target of sample i (0-based)
FTarget(demo, d, i, curr_k, curr_d, tau) ==
    LET n == Len(demo.points)
        x_0 == demo.points[1].positions[d]
        goal == demo.points[n].positions[d]
        x == demo.points[i + 1].positions[d]
        phase == calcPhase(demo.times[i + 1], tau)
        a == ((tau * tau * v_dot_demo(demo, d, i)
               + curr_d * tau * v_demo(demo, d, i)) \div curr_k)
             - (goal - x) + (((goal - x_0) * phase) \div FixedOne)
    IN (a * FixedOne) \div phase

\* dmp.cpp:99-138: the primitive of dimension d (1-based)
LearnDim(demo, k_gains, d_gains, num_bases, d, j, w) ==
    LET n == Len(demo.points)
        tau == At(demo.times, n - 1, j)
        curr_k == At(k_gains, d - 1, j)
        curr_d == At(d_gains, d - 1, j)
        f_domain == [i \in 1..n |-> (demo.times[i] * FixedOne) \div tau]
        f_targets == [i \in 1..n |-> FTarget(demo, d, i - 1, curr_k, curr_d, tau)]
    IN [weights |-> leastSquaresWeights(num_bases, f_domain, f_targets, w),
        k_gain |-> curr_k, d_gain |-> curr_d,
        f_domain |-> f_domain, f_targets |-> f_targets]

\* dmp.cpp:75-146: the output list, the reads past the end and the
\* diagnostics of one call whose output list holds out on entry.
learnFromDemo(demo, k_gains, d_gains, num_bases, out, j, w) ==
    LET n == Len(demo.points)
    IN IF n < 1
       THEN [dmp_list |-> out, oob |-> {},
             reported |-> {"Empty trajectory passed to learn_dmp_from_demo service!"}]
       ELSE LET dims == Len(demo.points[1].positions)
            IN [dmp_list |-> out \o [d \in 1..dims |->
                                  LearnDim(demo, k_gains, d_gains, num_bases,
                                           d, j, w)],
                oob |-> Oob("k_gains", k_gains, 0..(dims - 1))
                        \cup Oob("d_gains", d_gains, 0..(dims - 1))
                        \cup Oob("times", demo.times, {n - 1}),
                reported |-> {}]

----------------------------------------------------------------------------
(* Vertex lists handed to the geometry helpers *)

VertexVals == {<<0, 0, 0>>, <<4, 2, 1>>, <<1, 5, 3>>}
PathPoints == {<<0, 0, 0>>, <<3, 3, 3>>}
VertexLists == UNION {[1..m -> VertexVals] : m \in 0..MaxVerts}

----------------------------------------------------------------------------
(* The state machine *)

NoReq == [op |-> "none"]
NoGeo == [fn |-> "none"]

Init ==
    /\ pc = "idle" /\ last = "none"
    /\ active_dmp_list = <<>>
    /\ req = NoReq /\ junk = 0 /\ oob = {} /\ reported = {}
    /\ obstacle = <<>> /\ beta = <<>> /\ gamma = <<>> /\ k = <<>>
    /\ t = 0 /\ n_pts = 0 /\ at_goal = FALSE /\ seg_end = FALSE
    /\ x_vecs = <<>> /\ x_dot_vecs = <<>> /\ t_vec = <<>>
    /\ plan = EmptyPlan
    /\ dmp_list = <<>> /\ res_tau = 0
    /\ geo = NoGeo

PlanIdle ==
    /\ obstacle' = <<>> /\ beta' = <<>> /\ gamma' = <<>> /\ k' = <<>>
    /\ t' = 0 /\ n_pts' = 0 /\ at_goal' = FALSE /\ seg_end' = FALSE
    /\ x_vecs' = <<>> /\ x_dot_vecs' = <<>> /\ t_vec' = <<>>
    /\ plan' = EmptyPlan

\* dmp_server.cpp:29-35
ActiveLists ==
    {Vec(D, [weights |-> w, k_gain |-> g.k_gain, d_gain |-> g.d_gain]) :
        D \in DimsVals, w \in WeightVals, g \in GainVals}

activeCallback ==
    /\ pc = "idle"
    /\ \E l \in ActiveLists :
          /\ active_dmp_list' = l
          /\ req' = [op |-> "active", dmp_list |-> l]
    /\ pc' = "done" /\ last' = "active"
    /\ junk' = 0 /\ oob' = {} /\ reported' = {}
    /\ PlanIdle
    /\ UNCHANGED <<dmp_list, res_tau, geo>>

\* dmp_server.cpp:14-25 and dmp.cpp:349-375: the obstacle list is built and
\* generatePlan is entered, up to its loop.
planCallback ==
    /\ pc = "idle"
    /\ \E call \in PlanCalls(Len(active_dmp_list)) :
          LET r == call[1]
              j == call[2]
          IN /\ req' = r
             /\ junk' = j
             /\ obstacle' = ParseObstacle(r.obstacle, j)
             /\ oob' = ParseOob(r.obstacle)
             /\ beta' = r.beta /\ gamma' = r.gamma /\ k' = r.k
    /\ plan' = EmptyPlan
    /\ at_goal' = FALSE
    /\ n_pts' = 0 /\ t' = 0 /\ seg_end' = FALSE
    /\ x_vecs' = Vec(Len(active_dmp_list), <<>>)
    /\ x_dot_vecs' = Vec(Len(active_dmp_list), <<>>)
    /\ t_vec' = <<>>
    /\ pc' = "plan" /\ last' = "plan"
    /\ reported' = {}
    /\ UNCHANGED <<active_dmp_list, dmp_list, res_tau, geo>>

\* dmp.cpp:376-459, one iteration of the planning loop
PlanStep ==
    /\ pc = "plan"
    /\ LoopCond(t, req.t_0, req.tau, at_goal, seg_end)
    /\ LET dims == Len(active_dmp_list)
           dt == req.dt \div req.integrate_iter
           first == n_pts = 0
           coupled == Coupled(obstacle, dims)
           x_avd == IF first THEN [i \in 1..3 |-> At(req.x_0, i - 1, junk)]
                    ELSE [i \in 1..3 |-> x_vecs[i][n_pts]]
           v_avd == IF first THEN [i \in 1..3 |-> At(req.x_dot_0, i - 1, junk)]
                    ELSE [i \in 1..3 |-> FromXDot(x_dot_vecs[i][n_pts], req.tau)]
       IN \E c \in IF coupled THEN ApfFactors ELSE {0} :
          LET apf == IF coupled
                     THEN artificialPotentialFieldCoupling(
                              x_avd, v_avd, obstacle, beta, gamma, k,
                              req.scale_m, req.scale_n, c, junk)
                     ELSE [apf_ct |-> Vec(dims, 0), beta |-> beta,
                           gamma |-> gamma, k |-> k, oob |-> {}]
              apf_ct == [i \in 1..dims |->
                            IF i <= Len(apf.apf_ct) THEN apf.apf_ct[i] ELSE 0]
              xv == [i \in 1..dims |->
                       Integrate(active_dmp_list[i],
                                 At(req.x_0, i - 1, junk),
                                 At(req.goal, i - 1, junk),
                                 apf_ct[i], t + req.t_0, req.tau, dt,
                                 req.integrate_iter, 0,
                                 IF first
                                 THEN <<At(req.x_0, i - 1, junk),
                                        At(req.x_dot_0, i - 1, junk)>>
                                 ELSE <<x_vecs[i][n_pts],
                                        FromXDot(x_dot_vecs[i][n_pts], req.tau)>>)]
              xs == [i \in 1..dims |-> xv[i][1]]
          IN /\ seg_end' = SegEnd(req.seg_length, t, seg_end)
             /\ beta' = apf.beta /\ gamma' = apf.gamma /\ k' = apf.k
             /\ x_vecs' = [i \in 1..dims |-> Append(x_vecs[i], xv[i][1])]
             /\ x_dot_vecs' = [i \in 1..dims |->
                                  Append(x_dot_vecs[i], ToXDot(xv[i][2], req.tau))]
             /\ t' = t + req.dt
             /\ t_vec' = Append(t_vec, t + req.dt)
             /\ n_pts' = n_pts + 1
             /\ at_goal' = AtGoalAfter(at_goal, t + req.dt, req.t_0, req.tau, xs,
                                       req.goal, req.goal_thresh, dims, junk)
             /\ oob' = oob \cup apf.oob
                       \cup StepOob(req, dims, first, coupled, t + req.dt, junk)
    /\ UNCHANGED <<pc, last, active_dmp_list, req, junk, reported, obstacle,
                   plan, dmp_list, res_tau, geo>>

\* dmp.cpp:461-482, the plan is built and generatePlan returns
PlanReturn ==
    /\ pc = "plan"
    /\ ~LoopCond(t, req.t_0, req.tau, at_goal, seg_end)
    /\ plan' = [points |-> [j \in 1..n_pts |->
                              [positions |-> [i \in 1..Len(x_vecs) |-> x_vecs[i][j]],
                               velocities |-> [i \in 1..Len(x_vecs) |->
                                                  x_dot_vecs[i][j]]]],
                times |-> t_vec]
    /\ pc' = "done"
    /\ UNCHANGED <<last, active_dmp_list, req, junk, oob, reported, obstacle,
                   beta, gamma, k, t, n_pts, at_goal, seg_end, x_vecs,
                   x_dot_vecs, t_vec, dmp_list, res_tau, geo>>

\* dmp_server.cpp:6-12: learnFromDemo fills the response's (empty) list, then
\* tau is read from the last demo time; times.size()-1 wraps for an empty
\* list, recorded here as index -1.
lfdCallback ==
    /\ pc = "idle"
    /\ \E r \in LearnRequests, j \in JunkVals, w \in FitVals :
          LET res == learnFromDemo(r.demo, r.k_gains, r.d_gains, r.num_bases,
                                   <<>>, j, w)
          IN /\ req' = r @@ [fit |-> w, calls |-> 1]
             /\ junk' = j
             /\ dmp_list' = res.dmp_list
             /\ res_tau' = At(r.demo.times, Len(r.demo.times) - 1, j)
             /\ oob' = res.oob
                       \cup Oob("times", r.demo.times, {Len(r.demo.times) - 1})
             /\ reported' = res.reported
    /\ pc' = "done" /\ last' = "lfd"
    /\ PlanIdle
    /\ UNCHANGED <<active_dmp_list, geo>>

\* A caller of the library calls learnFromDemo with an empty output list.
learnCall ==
    /\ pc = "idle"
    /\ \E r \in LearnRequests, j \in JunkVals, w \in FitVals :
          LET res == learnFromDemo(r.demo, r.k_gains, r.d_gains, r.num_bases,
                                   <<>>, j, w)
          IN /\ req' = r @@ [fit |-> w, calls |-> 1]
             /\ junk' = j
             /\ dmp_list' = res.dmp_list
             /\ oob' = res.oob
             /\ reported' = res.reported
    /\ pc' = "done" /\ last' = "learn"
    /\ PlanIdle
    /\ UNCHANGED <<active_dmp_list, res_tau, geo>>

\* The caller calls learnFromDemo again with the same arguments and the
\* output list of the call before.
learnAgain ==
    /\ pc = "done" /\ last = "learn"
    /\ req.calls < MaxLearnCalls
    /\ LET res == learnFromDemo(req.demo, req.k_gains, req.d_gains,
                                req.num_bases, dmp_list, junk, req.fit)
       IN /\ dmp_list' = res.dmp_list
          /\ oob' = oob \cup res.oob
          /\ reported' = res.reported
    /\ req' = [req EXCEPT !.calls = @ + 1]
    /\ UNCHANGED <<pc, last, active_dmp_list, junk, obstacle, beta, gamma, k,
                   t, n_pts, at_goal, seg_end, x_vecs, x_dot_vecs, t_vec, plan,
                   res_tau, geo>>

\* What a call of a geometry helper leaves besides its result.
GeoFrame(fn) ==
    /\ pc' = "done" /\ last' = fn
    /\ req' = NoReq /\ junk' = 0 /\ oob' = {}
    /\ PlanIdle
    /\ UNCHANGED <<active_dmp_list, dmp_list, res_tau>>

GeoReported(r) == IF r.reported THEN {"Error: Empty input points vector."} ELSE {}

\* A caller of the library calls calculate_bounding_box_dimensions.
boundingBoxCall ==
    /\ pc = "idle"
    /\ \E vs \in VertexLists :
       \E r \in calculate_bounding_box_dimensions(vs) :
          /\ geo' = [fn |-> "calculate_bounding_box_dimensions",
                     vertices |-> vs, result |-> r]
          /\ reported' = GeoReported(r)
    /\ GeoFrame("calculate_bounding_box_dimensions")

\* A caller of the library calls calculateCentroid.
centroidCall ==
    /\ pc = "idle"
    /\ \E vs \in VertexLists :
       \E r \in calculateCentroid(verticesVectorToEigen(vs)) :
          /\ geo' = [fn |-> "calculateCentroid", vertices |-> vs, result |-> r]
          /\ reported' = GeoReported(r)
    /\ GeoFrame("calculateCentroid")

\* A caller of the library calls nearestObjectPoint.
nearestCall ==
    /\ pc = "idle"
    /\ \E vs \in VertexLists, p \in PathPoints :
       \E r \in nearestObjectPoint(verticesVectorToEigen(vs), p) :
          /\ geo' = [fn |-> "nearestObjectPoint", vertices |-> vs,
                     path_point |-> p, result |-> r]
          /\ reported' = GeoReported(r)
    /\ GeoFrame("nearestObjectPoint")

\* dmp_server.cpp:46: ros::spin hands the next request to its callback, with
\* a fresh request and response; only active_dmp_list outlives a call.
NextRequest ==
    /\ pc = "done"
    /\ pc' = "idle" /\ last' = "none"
    /\ req' = NoReq /\ junk' = 0 /\ oob' = {} /\ reported' = {}
    /\ PlanIdle
    /\ dmp_list' = <<>> /\ res_tau' = 0 /\ geo' = NoGeo
    /\ UNCHANGED active_dmp_list

Next ==
    \/ activeCallback
    \/ planCallback
    \/ PlanStep
    \/ PlanReturn
    \/ lfdCallback
    \/ learnCall
    \/ learnAgain
    \/ boundingBoxCall
    \/ centroidCall
    \/ nearestCall
    \/ NextRequest

Spec == Init /\ [][Next]_vars

\* generatePlan is sequential code: an iteration of its loop that can run
\* does run, and so does its return.
FairSpec == Spec /\ WF_vars(PlanStep) /\ WF_vars(PlanReturn)

----------------------------------------------------------------------------
(* Properties *)

PlanDone == pc = "done" /\ last = "plan"
Dims == Len(active_dmp_list)

\* C1 as stated: the time sequence of a returned plan has at most
\* MAX_PLAN_LENGTH / total_dt + 1 entries, whatever tau is.
C1_HardCutoff ==
    PlanDone => (Len(plan.times) - 1) * req.dt <= MAX_PLAN_LENGTH

\* C1, amended: the time sequence of a returned plan has at most
\* max(MAX_PLAN_LENGTH, tau - t_0) / total_dt + 1 entries: the cutoff ends the
\* plan only once the elapsed time t + t_0 has reached tau.
C1_PlanLength ==
    PlanDone => (Len(plan.times) - 1) * req.dt
                    <= Max(MAX_PLAN_LENGTH, req.tau - req.t_0)

\* A plan that the cutoff ended: it returned away from the goal at
\* t >= MAX_PLAN_LENGTH, with no segment end.
C1_Witness ==
    PlanDone /\ ~at_goal /\ ~seg_end /\ t >= MAX_PLAN_LENGTH
    /\ (Len(plan.times) - 1) * req.dt < MAX_PLAN_LENGTH


\* C2 as stated: with a segment length set, no point is appended in an
\* iteration that starts with t > seg_length, so at most one time stamp of the
\* returned plan is greater than seg_length.
C2_SegmentStop ==
    (PlanDone /\ req.seg_length > 0)
        => Cardinality({i \in DOMAIN plan.times :
                           plan.times[i] > req.seg_length}) <= 1

\* C3 as stated: Learn and Plan never read k_gains, d_gains, x_0, x_dot_0,
\* goal or goal_thresh at an index past the vector's end; a vector shorter
\* than D is reported instead.
SizedVectors == {"k_gains", "d_gains", "x_0", "x_dot_0", "goal", "goal_thresh"}
C3_DimensionsValidated ==
    (last \in {"plan", "learn", "lfd"}) => \A r \in oob : r.vec \notin SizedVectors

\* The number of vertices the obstacle list of length L stands for.
VerticesOf(L) == IF L = 3 THEN 1 ELSE IF L > 3 /\ L % 3 = 0 THEN L \div 3 ELSE 0

\* C4 as stated: the flat obstacle list of a Plan request is read by its
\* length L alone: one point for L = 3, L/3 vertices for a multiple of 3
\* above 3, no obstacle for any other L, and nothing is read at an index >= L.
C4_ObstacleByLength ==
    (last = "plan")
        => /\ Len(obstacle) = VerticesOf(Len(req.obstacle))
           /\ \A r \in oob : r.vec # "obstacle"

\* C5 as stated: Learn on a demonstration with no points reports the error,
\* leaves the output primitive set empty and reads no element of the
\* demonstration.
C5_EmptyDemo ==
    (pc = "done" /\ last \in {"learn", "lfd"} /\ Len(req.demo.points) = 0)
        => /\ reported # {}
           /\ dmp_list = <<>>
           /\ \A r \in oob : r.vec # "times"

\* The vertex-list branch of the coupling has run in this Plan call, on a
\* list of whole vertices.
VertexBranchRan ==
    /\ last = "plan" /\ n_pts > 0
    /\ Coupled(obstacle, Dims) /\ Len(obstacle) # 1
    /\ Len(req.obstacle) % 3 = 0

\* padded is supplied followed by zeros, at least n entries long.
PaddedWithZeros(supplied, padded, n) ==
    /\ Len(padded) = Max(Len(supplied), n)
    /\ \A i \in 1..Len(padded) :
          padded[i] = IF i <= Len(supplied) THEN supplied[i] ELSE 0

\* C6 as stated: the vertex-list branch pads beta to 2 and gamma and k to 3
\* entries with trailing zeros, every supplied entry keeping its index and
\* value.
C6_PaddingKeepsEntries ==
    VertexBranchRan
        => /\ PaddedWithZeros(req.beta, beta, 2)
           /\ PaddedWithZeros(req.gamma, gamma, 3)
           /\ PaddedWithZeros(req.k, k, 3)

\* The indices at which both the goal and the threshold exist.
CheckedDims == {i \in 1..Dims : i <= Len(req.goal) /\ i <= Len(req.goal_thresh)}

\* C7: a plan returns at_goal = true only if its final time has t + t_0 >= tau
\* and its last point is within goal_thresh of the goal in every dimension
\* with a positive threshold.
C7_AtGoalMeaning ==
    (PlanDone /\ at_goal)
        => /\ (t + req.t_0) >= req.tau
           /\ Len(plan.points) > 0
           /\ \A i \in CheckedDims :
                 req.goal_thresh[i] > 0
                     => Abs(plan.points[Len(plan.points)].positions[i]
                            - req.goal[i]) <= req.goal_thresh[i]

\* A plan that returned at the goal, away from it by less than a positive
\* threshold in some dimension.
C7_Witness ==
    /\ PlanDone /\ at_goal
    /\ \E i \in CheckedDims :
          /\ req.goal_thresh[i] > 0
          /\ plan.points[Len(plan.points)].positions[i] # req.goal[i]

\* A Plan call that starts at rest at the goal, with zero weights, no
\* obstacle, no segment length and positive thresholds in every dimension.
AtRestAtGoal ==
    /\ last = "plan"
    /\ Len(req.x_0) = Dims /\ Len(req.x_dot_0) = Dims
    /\ Len(req.goal) = Dims /\ Len(req.goal_thresh) = Dims
    /\ \A i \in 1..Dims :
          /\ req.x_0[i] = req.goal[i] /\ req.x_dot_0[i] = 0
          /\ req.goal_thresh[i] > 0
          /\ \A j \in DOMAIN active_dmp_list[i].weights :
                active_dmp_list[i].weights[j] = 0
    /\ req.obstacle = <<>>
    /\ req.seg_length < 0

\* C8: such a plan stays at the goal at every step and ends with
\* at_goal = true at the first step whose time has t + t_0 >= tau: every time
\* stamp but the last is before tau.
C8_RestAtGoal ==
    AtRestAtGoal
        => /\ \A i \in 1..Dims : \A j \in DOMAIN x_vecs[i] :
                 x_vecs[i][j] = req.goal[i]
           /\ \A j \in 1..(Len(t_vec) - 1) : (t_vec[j] + req.t_0) < req.tau
           /\ (pc = "done") => (at_goal /\ (t + req.t_0) >= req.tau
                                /\ Len(plan.points) = n_pts /\ n_pts > 0)

\* Such a plan returned after more than one step.
C8_Witness == AtRestAtGoal /\ pc = "done" /\ Dims > 0 /\ Len(plan.times) > 1

\* C9 as stated: after learnFromDemo on a demonstration of dimension D (with
\* D gains of each kind) the output list holds exactly D primitives, whatever
\* it held before.
C9_ExactlyDPrimitives ==
    (/\ pc = "done" /\ last \in {"learn", "lfd"}
     /\ Len(req.demo.points) > 0
     /\ Len(req.k_gains) = Len(req.demo.points[1].positions)
     /\ Len(req.d_gains) = Len(req.demo.points[1].positions))
        => Len(dmp_list) = Len(req.demo.points[1].positions)

\* C10 as stated: a geometry helper called with no vertices reports the
\* invalid input and returns the zero vector.
GeoFns == {"calculate_bounding_box_dimensions", "calculateCentroid",
           "nearestObjectPoint"}
C10_EmptyVerticesZero ==
    (pc = "done" /\ last \in GeoFns /\ geo.vertices = <<>>)
        => /\ geo.result.kind = "value"
           /\ geo.result.v = <<0, 0, 0>>
           /\ reported # {}

\* A Plan call with no segment length.
Unbounded == last = "plan" /\ req.seg_length < 0

\* generatePlan is at its loop, in such a call.
InLoop == pc = "plan" /\ Unbounded

\* What such a plan is when it returns: at least one point, the final time
\* stamp t with t + t_0 >= tau, and at_goal = false only at the cutoff.
ReturnedUnbounded ==
    (PlanDone /\ Unbounded)
        => /\ n_pts >= 1 /\ Len(plan.points) = n_pts
           /\ Len(plan.times) = n_pts /\ plan.times[n_pts] = t
           /\ (t + req.t_0) >= req.tau
           /\ (~at_goal => t >= MAX_PLAN_LENGTH)

\* At the loop there is always a step to take: another iteration, or the
\* return.
NeverStuck == InLoop => (ENABLED PlanStep \/ ENABLED PlanReturn)

\* An iteration starts below max(MAX_PLAN_LENGTH, tau - t_0) and leaves t
\* larger, so there are finitely many of them.
Progress ==
    (InLoop /\ pc' = "plan")
        => /\ req.dt > 0
           /\ t < Max(MAX_PLAN_LENGTH, req.tau - req.t_0)
           /\ t' > t

\* C11: with no segment length and total_dt > 0, generatePlan always
\* terminates (its loop is never stuck, and every iteration raises t, which
\* is bounded where an iteration starts), appends at least one point, plans
\* for at least tau (the final time stamp has t + t_0 >= tau), and returns
\* at_goal = false only if the cutoff was hit (final t >= MAX_PLAN_LENGTH).
C11_UnboundedPlan ==
    /\ []ReturnedUnbounded
    /\ []NeverStuck
    /\ [][Progress]_vars

\* The same termination as a liveness property of FairSpec: an unbounded call
\* at its loop returns.
UnboundedPlanReturns == InLoop ~> (pc = "done")

\* An unbounded plan that returned away from the goal, at the cutoff, and one
\* primitive at least.
C11_Witness ==
    /\ PlanDone /\ Unbounded /\ Dims > 0
    /\ ~at_goal /\ t >= MAX_PLAN_LENGTH /\ (t + req.t_0) >= req.tau

====
